---- MODULE Spec2Model ----
(***************************************************************************)
(* Invoice extraction and PDF generation service (src/app/main.py) and its *)
(* command-line client (src/client.py).                                    *)
(*                                                                         *)
(* Three state machines over one set of variables:                         *)
(*   SpecNormalize  serialize_field applied to one extracted field tree    *)
(*   SpecAnalyze    the /analyze-invoice handler                           *)
(*   SpecRender     the /generate-pdf handler followed by the client save  *)
(*                                                                         *)
(* Python values are tagged records, one field name per tag so that values *)
(* of different types are always comparable:                               *)
(*   None, Str(s), Num(n), Bool(b)    JSON scalars                         *)
(*   Dict(m)   a mapping (dict or dict-like SDK object), m a function      *)
(*   List(xs)  a list                                                      *)
(*   Obj(a)    an attribute-based typed SDK object, a: attribute -> value  *)
(*   Date(d)   a non-primitive leaf object (datetime.date) printing as d   *)
(*   Raise(e)  the outcome "raised exception e" of an evaluation           *)
(***************************************************************************)
EXTENDS Integers, Sequences, FiniteSets, TLC

VARIABLES
    pc,              \* position of the running handler or function
    field,           \* SpecNormalize: the argument of serialize_field
    result,          \* SpecNormalize: what serialize_field returned or raised
    contents,        \* SpecAnalyze: result.contents, a sequence of content blocks
    cursor,          \* SpecAnalyze: number of content blocks already merged
    extracted_data,  \* SpecAnalyze: the flat mapping being built
    upstream,        \* SpecAnalyze: the exception the extraction client raised
    invoice_data,    \* SpecRender: the request body of /generate-pdf
    doc,             \* SpecRender: invoice_data after the auto-unwrap
    currency,        \* SpecRender: the derived currency
    context,         \* SpecRender: the keyword arguments bound into the template
    exc,             \* SpecRender: the exception in flight, NoExc when none
    session,         \* SpecRender: id of the playwright session of this call
    held,            \* SpecRender: ids of the sessions whose processes are alive
    browser,         \* SpecRender: state of this call's browser handle
    calls,           \* SpecRender: number of /generate-pdf calls started
    output_file,     \* SpecRender: the name the client saved the PDF under
    response         \* the handler's HTTP response

vars == <<pc, field, result, contents, cursor, extracted_data, upstream,
          invoice_data, doc, currency, context, exc, session, held, browser,
          calls, output_file, response>>

----------------------------------------------------------------------------
(* Python values *)

None == [t |-> "null"]
Str(s) == [t |-> "str", s |-> s]
Num(n) == [t |-> "num", n |-> n]
Bool(b) == [t |-> "bool", b |-> b]
Dict(m) == [t |-> "dict", m |-> m]
List(xs) == [t |-> "list", xs |-> xs]
Obj(a) == [t |-> "obj", a |-> a]
Date(d) == [t |-> "date", d |-> d]
Raise(e) == [t |-> "raise", e |-> e]

IsRaise(v) == v.t = "raise"
EmptyMap == <<>>

\* One-entry and two-entry mappings.
Map1(k, v) == [x \in {k} |-> v]
Map2(k1, v1, k2, v2) == [x \in {k1, k2} |-> IF x = k1 THEN v1 ELSE v2]
\* Right-biased union of two mappings.
Merge(f, g) == [x \in DOMAIN f \cup DOMAIN g |-> IF x \in DOMAIN g THEN g[x] ELSE f[x]]

\* Iteration order of a dict: Python dicts iterate in insertion order; the
\* model's dicts are inserted in the order of this list.
AllKeys == <<"valueString", "valueNumber", "valueDate", "valueObject", "valueArray",
             "type", "status", "data", "raw_result", "InvoiceId", "CustomerName",
             "TotalAmount", "CurrencyCode", "Amount", "currency", "Items">>

KeyOrder(S) == SelectSeq(AllKeys, LAMBDA k : k \in S)

\* The index of the first raised outcome in a sequence of outcomes, 0 if none.
FirstRaise(rs) ==
    IF \E i \in 1..Len(rs) : IsRaise(rs[i])
    THEN CHOOSE i \in 1..Len(rs) :
            IsRaise(rs[i]) /\ \A j \in 1..(i-1) : ~IsRaise(rs[j])
    ELSE 0

RECURSIVE JoinStr(_, _)
JoinStr(parts, sep) ==
    IF Len(parts) = 0 THEN ""
    ELSE IF Len(parts) = 1 THEN parts[1]
    ELSE parts[1] \o sep \o JoinStr(Tail(parts), sep)

\* str(v) and repr(v) of Python.
RECURSIVE PyRepr(_)
PyStr(v) ==
    IF v.t = "str" THEN v.s ELSE PyRepr(v)

PyRepr(v) ==
    CASE v.t = "null" -> "None"
      [] v.t = "str"  -> "'" \o v.s \o "'"
      [] v.t = "num"  -> ToString(v.n)
      [] v.t = "bool" -> IF v.b THEN "True" ELSE "False"
      [] v.t = "date" -> v.d
      [] v.t = "list" ->
            "[" \o JoinStr([i \in 1..Len(v.xs) |-> PyRepr(v.xs[i])], ", ") \o "]"
      [] v.t = "dict" ->
            LET ks == KeyOrder(DOMAIN v.m) IN
            "{" \o JoinStr([i \in 1..Len(ks) |->
                              "'" \o ks[i] \o "': " \o PyRepr(v.m[ks[i]])], ", ") \o "}"
      [] OTHER -> "<object>"

----------------------------------------------------------------------------
(* serialize_field *)

\* Faulty variant: the number key probed before the string key.
PrimitiveKeysNumberFirst == <<"valueNumber", "valueString", "valueDate">>

\* The primitive value keys, in the order they are probed.
PrimitiveKeys == <<"valueString", "valueNumber", "valueDate">>

\* The attributes probed on a typed (non-dict) field, in order.
FallbackAttrs == <<"value_string", "value_number", "value_date", "value">>

\* hasattr(field, "get") or isinstance(field, dict)
IsDictLike(v) == v.t = "dict"

\* value_key in field
HasKey(v, k) == k \in DOMAIN v.m

\* getattr(field, attr, None)
GetAttr(v, attr) ==
    IF v.t = "obj" /\ attr \in DOMAIN v.a THEN v.a[attr] ELSE None

\* The first primitive key present, or "" when there is none.
FirstPrimitiveKey(v) ==
    LET present == SelectSeq(PrimitiveKeys, LAMBDA k : HasKey(v, k))
    IN IF Len(present) = 0 THEN "" ELSE present[1]

\* Faulty variant: a non-primitive attribute value returned without str().
CoerceNothing(val) == val

\* isinstance(val, (str, int, float, bool)) ? val : str(val)
Coerce(val) ==
    IF val.t \in {"str", "num", "bool"} THEN val ELSE Str(PyStr(val))

\* The fallback for non-dict objects: the first attribute that is not None.
AttrFallback(v) ==
    LET found == SelectSeq(FallbackAttrs, LAMBDA a : GetAttr(v, a) # None)
    IN IF Len(found) = 0 THEN None ELSE Coerce(GetAttr(v, found[1]))

\* What iterating over a value yields: its items, or a raise.
\* (a list yields its items, a dict its keys, a str its characters; anything
\* else is not iterable)
IterItems(v) ==
    CASE v.t = "list" -> v
      [] v.t = "dict" ->
            List([i \in 1..Len(KeyOrder(DOMAIN v.m)) |-> Str(KeyOrder(DOMAIN v.m)[i])])
      [] v.t = "str"  -> List([i \in 1..Len(v.s) |-> Str("c")])
      [] OTHER -> Raise("TypeError")

RECURSIVE serialize_field(_)

\* {k: serialize_field(v) for k, v in obj.items()}
SerializeObject(obj) ==
    IF obj.t # "dict" THEN Raise("AttributeError")
    ELSE LET ks == KeyOrder(DOMAIN obj.m)
             rs == [i \in 1..Len(ks) |-> serialize_field(obj.m[ks[i]])]
             bad == FirstRaise(rs)
         IN IF bad # 0 THEN rs[bad]
            ELSE Dict([k \in DOMAIN obj.m |-> rs[CHOOSE i \in 1..Len(ks) : ks[i] = k]])

\* Faulty variant: the items come out in reverse order.
SerializeArrayReversed(arr) ==
    LET items == IterItems(arr) IN
    IF IsRaise(items) THEN items
    ELSE LET n == Len(items.xs)
             rs == [i \in 1..n |-> serialize_field(items.xs[n + 1 - i])]
             bad == FirstRaise(rs)
         IN IF bad # 0 THEN rs[bad] ELSE List(rs)

\* [serialize_field(item) for item in arr]
SerializeArray(arr) ==
    LET items == IterItems(arr) IN
    IF IsRaise(items) THEN items
    ELSE LET rs == [i \in 1..Len(items.xs) |-> serialize_field(items.xs[i])]
             bad == FirstRaise(rs)
         IN IF bad # 0 THEN rs[bad] ELSE List(rs)

serialize_field(v) ==
    IF v = None THEN None
    ELSE IF IsDictLike(v) THEN
        IF FirstPrimitiveKey(v) # "" THEN v.m[FirstPrimitiveKey(v)]
        ELSE IF HasKey(v, "valueObject") THEN SerializeObject(v.m["valueObject"])
        ELSE IF HasKey(v, "valueArray") THEN SerializeArray(v.m["valueArray"])
        ELSE None
    ELSE AttrFallback(v)

----------------------------------------------------------------------------
(* SpecNormalize: serialize_field applied to one field tree *)

MaxDepth == 2
MaxLen == 2

NotYet == [t |-> "pending"]
NoExc == [t |-> "noexc"]

SeqsUpTo(S, n) == UNION {[1..k -> S] : k \in 0..n}
MapsOver(K, S) == UNION {[D -> S] : D \in SUBSET K}

\* Fields used as members of containers.
Kids0 ==
    { None,
      Dict(Map1("valueString", Str("Acme"))),
      Dict(Map1("valueNumber", Num(7))),
      Obj(Map1("value", Bool(TRUE))),
      Dict(Map1("valueObject", None)) }

\* Dict-like fields carrying any combination of the primitive keys.
PrimitiveFields ==
    { Dict(Merge(Merge(a, b), c)) :
        a \in {EmptyMap} \cup {Map1("valueString", x) : x \in {Str("Acme"), None, Bool(TRUE)}},
        b \in {EmptyMap} \cup {Map1("valueNumber", x) : x \in {Num(7), None}},
        c \in {EmptyMap} \cup {Map1("valueDate", x) :
                                  x \in {Str("2024-01-31"), Date("2024-01-31")}} }

\* A primitive key next to a container key, and both container keys together.
MixedFields ==
    { Dict(Map2("valueString", Str("Acme"), "valueObject", None)),
      Dict(Map2("valueDate", Str("2024-01-31"), "valueArray", Num(7))),
      Dict(Map2("valueNumber", Num(7), "valueArray", List(<<None>>))),
      Dict(Map2("valueObject", Dict(Map1("InvoiceId", None)), "valueArray", None)),
      Dict(Map2("valueObject", None, "valueArray", List(<<None>>))),
      Dict(Map1("type", Str("string"))),
      Dict(Map2("type", Str("array"), "valueArray", List(<<Dict(EmptyMap)>>))) }

\* A null or non-container value under a container key.
MalformedFields ==
    { Dict(Map1("valueObject", x)) : x \in {None, Num(7), List(<<>>), Str("ab")} }
    \cup { Dict(Map1("valueArray", x)) :
             x \in {None, Num(7), Bool(FALSE), Str("ab"), Dict(Map1("InvoiceId", None))} }

\* Attribute-based typed objects and bare values.
TypedFields ==
    { Obj(EmptyMap),
      Obj(Map1("value_string", Str("Acme"))),
      Obj(Map1("value_number", Num(7))),
      Obj(Map1("value_date", Date("2024-01-31"))),
      Obj(Map1("value", Bool(TRUE))),
      Obj(Map1("value", List(<<Num(7), Str("a")>>))),
      Obj(Map1("value", Dict(Map1("Amount", None)))),
      Obj(Map2("value_string", None, "value", Num(7))),
      Obj(Map2("value_number", Num(7), "value", Str("Acme"))),
      Obj(Map2("value_string", Str("Acme"), "value_date", Date("2024-01-31"))),
      Str("x"), Num(3), Bool(FALSE), List(<<>>), Date("2024-01-31") }

\* The container fields built around one member c.
Wrappers(c) ==
    { Dict(Map1("valueObject", Dict(Map1("CustomerName", c)))),
      Dict(Map1("valueObject", Dict(Map2("CustomerName", c,
                                         "InvoiceId", Dict(Map1("valueString", Str("INV-42"))))))),
      Dict(Map1("valueArray", List(<<c>>))),
      Dict(Map1("valueArray", List(<<c, Dict(Map1("valueString", Str("INV-42")))>>))),
      Dict(Map1("valueArray", List(<<Dict(Map1("valueNumber", Num(3))), c>>))),
      Dict(Map2("valueObject", Dict(Map1("Items", c)), "valueArray", List(<<c>>))),
      Dict(Map2("valueDate", Str("2024-01-31"), "valueObject", Dict(Map1("Items", c)))) }

RECURSIVE Deep(_)
Deep(d) ==
    IF d = 0 THEN Kids0
    ELSE Deep(d - 1) \cup UNION {Wrappers(c) : c \in Deep(d - 1)}

\* Containers with every combination of members.
Wide ==
    { Dict(Map1("valueArray", List(xs))) : xs \in SeqsUpTo(Kids0, MaxLen) }
    \cup { Dict(Map1("valueObject", Dict(m))) : m \in MapsOver({"CustomerName", "Items"}, Kids0) }

InputFields ==
    PrimitiveFields \cup MixedFields \cup MalformedFields \cup TypedFields
    \cup Deep(MaxDepth) \cup Wide

IdleNormalize == field = None /\ result = NotYet

IdleAnalyze ==
    contents = <<>> /\ cursor = 0 /\ extracted_data = EmptyMap /\ upstream = NoExc

IdleRender ==
    /\ invoice_data = None /\ doc = None /\ currency = None /\ context = EmptyMap
    /\ exc = NoExc /\ session = 0 /\ held = {} /\ browser = "none" /\ calls = 0
    /\ output_file = ""

NormalizeVars == <<field, result>>
AnalyzeVars == <<contents, cursor, extracted_data, upstream>>
RenderVars == <<invoice_data, doc, currency, context, exc, session, held, browser,
                calls, output_file>>

InitNormalize ==
    /\ pc = "call"
    /\ field \in InputFields
    /\ result = NotYet
    /\ response = NotYet
    /\ IdleAnalyze
    /\ IdleRender

Serialize ==
    /\ pc = "call"
    /\ result' = serialize_field(field)
    /\ pc' = "returned"
    /\ UNCHANGED <<field, response>>
    /\ UNCHANGED AnalyzeVars
    /\ UNCHANGED RenderVars

NextNormalize == Serialize

SpecNormalize == InitNormalize /\ [][NextNormalize]_vars

----------------------------------------------------------------------------
(* SpecAnalyze: the /analyze-invoice handler *)

MaxBlocks == 3

\* Exceptions of the extraction client: HttpResponseError carries a status
\* code, which is None when the error has no HTTP response, and a message.
HttpResponseError(status, msg) ==
    [t |-> "HttpResponseError", status_code |-> status, message |-> msg]
Exception(msg) == [t |-> "Exception", message |-> msg]

UpstreamErrors ==
    { HttpResponseError(Num(401), "Access denied"),
      HttpResponseError(Num(429), "Too many requests"),
      HttpResponseError(None, "Operation failed") }

\* HTTPException(status_code=..., detail=...)
HTTPException(status, detail) ==
    [kind |-> "error", status_code |-> status, detail |-> detail]

\* JSONResponse(content=...), status 200
JSONResponse(content) ==
    [kind |-> "json", status_code |-> Num(200), content |-> content]

\* The except clauses of analyze_invoice.
AnalyzeExcept(e) ==
    IF e.t = "HttpResponseError"
    THEN HTTPException(e.status_code, "Azure Error: " \o e.message)
    ELSE HTTPException(Num(500), "Server Error: " \o e.message)

\* Field values the extraction returns in a content block.
BlockFields ==
    { Dict(Map1("valueString", Str("Acme"))),
      Dict(Map1("valueString", Str("Bolt"))),
      Dict(Map1("valueArray", None)) }

\* A content block: without a fields attribute, with fields None, or with a
\* (possibly empty) mapping from field name to field.
ContentBlocks ==
    { Obj(EmptyMap), Obj(Map1("fields", None)) }
    \cup { Obj(Map1("fields", Dict(m))) : m \in MapsOver({"CustomerName", "InvoiceId"}, BlockFields) }

\* hasattr(content, "fields") and content.fields
HasFields(content) ==
    /\ "fields" \in DOMAIN content.a
    /\ content.a["fields"].t = "dict"
    /\ DOMAIN content.a["fields"].m # {}

\* Faulty variant: a name already present keeps its value.
AssignFieldKeepFirst(data, name, value) ==
    IF name \in DOMAIN data THEN data ELSE Merge(data, Map1(name, value))

\* extracted_data[field_name] = value
AssignField(data, name, value) == Merge(data, Map1(name, value))

\* for field_name, field_value in content.fields.items(): ...
\* over the names ks still to do; Dict(data) at the end, or the raise of
\* serialize_field.
RECURSIVE MergeFields(_, _, _)
MergeFields(data, fields, ks) ==
    IF Len(ks) = 0 THEN Dict(data)
    ELSE LET value == serialize_field(fields[ks[1]]) IN
         IF IsRaise(value) THEN value
         ELSE MergeFields(AssignField(data, ks[1], value), fields, Tail(ks))

InitAnalyze ==
    /\ pc = "read"
    /\ response = NotYet
    /\ IdleNormalize
    /\ IdleAnalyze
    /\ IdleRender

AnalyzeFrame == UNCHANGED NormalizeVars /\ UNCHANGED RenderVars

\* An exception inside the try block: the matching except clause answers.
AnalyzeRaise(e) ==
    /\ upstream' = e
    /\ response' = AnalyzeExcept(e)
    /\ pc' = "responded"

\* file_bytes = await file.read()
ReadFile ==
    /\ pc = "read"
    /\ pc' = "begin"
    /\ UNCHANGED <<contents, cursor, extracted_data, upstream, response>>
    /\ AnalyzeFrame

ReadFileFails ==
    /\ pc = "read"
    /\ AnalyzeRaise(Exception("read failed"))
    /\ UNCHANGED <<contents, cursor, extracted_data>>
    /\ AnalyzeFrame

\* poller = client.begin_analyze_binary(...)
BeginAnalyze ==
    /\ pc = "begin"
    /\ pc' = "poll"
    /\ UNCHANGED <<contents, cursor, extracted_data, upstream, response>>
    /\ AnalyzeFrame

BeginAnalyzeFails ==
    /\ pc = "begin"
    /\ \E e \in UpstreamErrors \cup {Exception("connection refused")} : AnalyzeRaise(e)
    /\ UNCHANGED <<contents, cursor, extracted_data>>
    /\ AnalyzeFrame

\* result = await asyncio.to_thread(poller.result); extracted_data = {}
PollResult ==
    /\ pc = "poll"
    /\ \E cs \in SeqsUpTo(ContentBlocks, MaxBlocks) : contents' = cs
    /\ extracted_data' = EmptyMap
    /\ cursor' = 0
    /\ pc' = "merge"
    /\ UNCHANGED <<upstream, response>>
    /\ AnalyzeFrame

PollResultFails ==
    /\ pc = "poll"
    /\ \E e \in UpstreamErrors : AnalyzeRaise(e)
    /\ UNCHANGED <<contents, cursor, extracted_data>>
    /\ AnalyzeFrame

\* One iteration of: for content in result.contents
MergeBlock ==
    /\ pc = "merge"
    /\ cursor < Len(contents)
    /\ LET content == contents[cursor + 1]
           merged == IF HasFields(content)
                     THEN MergeFields(extracted_data, content.a["fields"].m,
                                      KeyOrder(DOMAIN content.a["fields"].m))
                     ELSE Dict(extracted_data)
       IN IF IsRaise(merged)
          THEN /\ AnalyzeRaise(Exception(merged.e))
               /\ UNCHANGED <<cursor, extracted_data>>
          ELSE /\ extracted_data' = merged.m
               /\ cursor' = cursor + 1
               /\ UNCHANGED <<pc, upstream, response>>
    /\ UNCHANGED contents
    /\ AnalyzeFrame

\* raw = result.as_dict(), or str(result) when that raises; the response
Respond ==
    /\ pc = "merge"
    /\ cursor = Len(contents)
    /\ \E raw \in {Dict(Map1("contents", List(<<>>))), Str("<AnalyzeResult>")} :
          response' = JSONResponse(Dict(
              Merge(Map2("status", Str("success"), "data", Dict(extracted_data)),
                    Map1("raw_result", raw))))
    /\ pc' = "responded"
    /\ UNCHANGED <<contents, cursor, extracted_data, upstream>>
    /\ AnalyzeFrame

NextAnalyze ==
    \/ ReadFile \/ ReadFileFails
    \/ BeginAnalyze \/ BeginAnalyzeFails
    \/ PollResult \/ PollResultFails
    \/ MergeBlock
    \/ Respond

SpecAnalyze == InitAnalyze /\ [][NextAnalyze]_vars

----------------------------------------------------------------------------
(* SpecRender: the /generate-pdf handler, then the client saving the PDF *)

MaxCalls == 2
MaxWrap == 2

Error(type, msg) == [t |-> type, message |-> msg]

\* key in x, for the keys "data" and "status": a key of a mapping, an item of
\* a list, a substring of a string; anything else does not support the test.
StringsWith(key) == IF key \in {"data", "status"} THEN {"status data"} ELSE {}

In(key, x) ==
    CASE x.t = "dict" -> key \in DOMAIN x.m
      [] x.t = "list" -> \E i \in 1..Len(x.xs) : x.xs[i] = Str(key)
      [] x.t = "str"  -> x.s \in StringsWith(key)
      [] OTHER -> FALSE

SupportsIn(x) == x.t \in {"dict", "list", "str"}

\* x[key] with a string key
Index(x, key) == IF x.t = "dict" THEN x.m[key] ELSE Raise("TypeError")

\* Faulty variant: unwraps whenever a data key is present.
UnwrapOnDataAlone(x) ==
    IF ~SupportsIn(x) THEN Raise("TypeError")
    ELSE IF In("data", x) THEN Index(x, "data") ELSE x

\* if "data" in invoice_data and "status" in invoice_data:
\*     invoice_data = invoice_data["data"]
Unwrap(x) ==
    IF ~SupportsIn(x) THEN Raise("TypeError")
    ELSE IF In("data", x) /\ In("status", x) THEN Index(x, "data") ELSE x

\* currency = ""; total_amount = invoice_data.get("TotalAmount")
\* if isinstance(total_amount, dict): currency = total_amount.get("CurrencyCode", "")
DeriveCurrency(d) ==
    LET total_amount == IF "TotalAmount" \in DOMAIN d.m THEN d.m["TotalAmount"] ELSE None
    IN IF total_amount.t = "dict"
       THEN IF "CurrencyCode" \in DOMAIN total_amount.m
            THEN total_amount.m["CurrencyCode"] ELSE Str("")
       ELSE Str("")

\* The keyword arguments of template.render(currency=currency, **invoice_data):
\* a keyword given twice is a TypeError.
RenderKwargs(cur, d) ==
    IF "currency" \in DOMAIN d.m THEN Raise("TypeError")
    ELSE Dict(Merge(d.m, Map1("currency", cur)))

\* invoice_id = invoice_data.get("InvoiceId", "invoice")
\* filename = f"invoice_{invoice_id}.pdf"
ServerFilename(d) ==
    "invoice_" \o PyStr(IF "InvoiceId" \in DOMAIN d.m THEN d.m["InvoiceId"] ELSE Str("invoice"))
               \o ".pdf"

\* Response(content=pdf_bytes, media_type="application/pdf", headers={...})
PdfResponse(filename) ==
    [kind |-> "pdf", status_code |-> Num(200), media_type |-> "application/pdf",
     headers |-> Map1("Content-Disposition", "attachment; filename=\"" \o filename \o "\"")]

\* except Exception as e: raise HTTPException(500, f"PDF generation failed: {e}")
RenderExcept(e) == HTTPException(Num(500), "PDF generation failed: " \o e.message)

\* Faulty variant: the client reads InvoiceId at the top level of the analyze response.
ClientFilenameTopLevel(res) ==
    "invoice_" \o PyStr(IF "InvoiceId" \in DOMAIN res.m THEN res.m["InvoiceId"]
                        ELSE Str("invoice")) \o ".pdf"

\* invoice_id = result.get("data", {}).get("InvoiceId", "invoice")
\* output_file = f"invoice_{invoice_id}.pdf"
ClientFilename(res) ==
    LET data == IF "data" \in DOMAIN res.m THEN res.m["data"] ELSE Dict(EmptyMap)
    IN "invoice_" \o PyStr(IF "InvoiceId" \in DOMAIN data.m THEN data.m["InvoiceId"]
                           ELSE Str("invoice")) \o ".pdf"

\* Faulty variant: the session is released only when rendering succeeded.
ReleasedOnSuccessOnly(h, s) == IF exc = NoExc THEN h \ {s} ELSE h

\* Leaving the "async with async_playwright()" block stops the session's
\* driver process, on the normal and on the exceptional path alike.
Released(h, s) == h \ {s}

\* Invoice documents: every combination of an InvoiceId, a TotalAmount and a
\* top-level currency field.
Documents ==
    { Dict(Merge(Merge(a, b), c)) :
        a \in {EmptyMap} \cup {Map1("InvoiceId", x) : x \in {Str("INV-42"), None, Num(7)}},
        b \in {EmptyMap} \cup {Map1("TotalAmount", x) :
                  x \in { Dict(Map2("CurrencyCode", Str("USD"), "Amount", Num(7))),
                          Dict(Map1("Amount", Num(7))),
                          Str("12.50"),
                          None }},
        c \in {EmptyMap, Map1("currency", Str("EUR"))} }

\* The response of /analyze-invoice carrying the document d.
AnalyzeResponse(d) ==
    Dict(Merge(Map2("status", Str("success"), "data", d),
               Map1("raw_result", Str("<AnalyzeResult>"))))

RECURSIVE Wrapped(_)
\* Analyze responses nested n deep around a document.
Wrapped(n) ==
    IF n = 0
    THEN { Dict(EmptyMap), Dict(Map1("InvoiceId", Str("INV-42"))),
           Dict(Map1("CustomerName", Str("Acme"))) }
    ELSE { AnalyzeResponse(d) : d \in Wrapped(n - 1) }

\* Request bodies: bare documents, analyze responses, nested envelopes,
\* envelopes whose data is no mapping, and mappings with only one of the two
\* envelope keys.
Bodies ==
    Documents
    \cup { AnalyzeResponse(d) : d \in Documents }
    \cup UNION { Wrapped(n) : n \in 0..MaxWrap }
    \cup { Dict(Map2("status", Str("success"), "data", x)) :
             x \in { None, Num(7), Str("n/a"), Str("status data"), List(<<>>),
                     List(<<Str("status"), Str("data")>>),
                     Dict(Map1("data", Dict(Map1("InvoiceId", Num(7))))) } }
    \cup { Dict(Map2("status", Str("paid"), "InvoiceId", Str("INV-42"))),
           Dict(Map2("data", Dict(Map1("data", None)), "InvoiceId", None)) }

\* The body is a response of /analyze-invoice, which is what the client sends.
IsAnalyzeResponse(body) ==
    /\ {"status", "data", "raw_result"} \subseteq DOMAIN body.m
    /\ body.m["status"] = Str("success")
    /\ body.m["data"].t = "dict"

InitRender ==
    /\ pc = "idle"
    /\ response = NotYet
    /\ IdleNormalize
    /\ IdleAnalyze
    /\ IdleRender

RenderFrame == UNCHANGED NormalizeVars /\ UNCHANGED AnalyzeVars

\* A request arrives; FastAPI accepts a JSON object as invoice_data.
Request ==
    /\ pc \in {"idle", "responded", "saved"}
    /\ calls < MaxCalls
    /\ \E body \in Bodies : invoice_data' = body
    /\ calls' = calls + 1
    /\ doc' = None /\ currency' = None /\ context' = EmptyMap /\ exc' = NoExc
    /\ session' = 0 /\ browser' = "none" /\ output_file' = "" /\ response' = NotYet
    /\ pc' = "bind"
    /\ UNCHANGED held
    /\ RenderFrame

\* An exception before the browser session exists: the except clause answers.
RenderRaise(e) ==
    /\ exc' = e
    /\ response' = RenderExcept(e)
    /\ pc' = "responded"

\* Unwrap, derive the currency, load the template and render the HTML.
Bind ==
    /\ pc = "bind"
    /\ LET d == Unwrap(invoice_data) IN
       /\ doc' = d
       /\ IF d.t # "dict"
          THEN /\ RenderRaise(Error("AttributeError", "no attribute 'get'"))
               /\ UNCHANGED <<currency, context>>
          ELSE /\ currency' = DeriveCurrency(d)
               /\ LET kwargs == RenderKwargs(DeriveCurrency(d), d) IN
                  IF IsRaise(kwargs)
                  THEN /\ RenderRaise(Error("TypeError",
                             "got multiple values for keyword argument 'currency'"))
                       /\ UNCHANGED context
                  ELSE /\ context' = kwargs.m
                       /\ pc' = "enter"
                       /\ UNCHANGED <<exc, response>>
    /\ UNCHANGED <<invoice_data, session, held, browser, calls, output_file>>
    /\ RenderFrame

\* env.get_template("template.html") or template.render fails in the template.
BindTemplateFails ==
    /\ pc = "bind"
    /\ Unwrap(invoice_data).t = "dict"
    /\ doc' = Unwrap(invoice_data)
    /\ currency' = DeriveCurrency(Unwrap(invoice_data))
    /\ RenderRaise(Error("TemplateError", "template.html"))
    /\ UNCHANGED <<invoice_data, context, session, held, browser, calls, output_file>>
    /\ RenderFrame

\* async with async_playwright() as p: a new session is started.
EnterPlaywright ==
    /\ pc = "enter"
    /\ session' = calls
    /\ held' = held \cup {calls}
    /\ pc' = "launch"
    /\ UNCHANGED <<invoice_data, doc, currency, context, exc, browser, calls,
                   output_file, response>>
    /\ RenderFrame

EnterPlaywrightFails ==
    /\ pc = "enter"
    /\ RenderRaise(Error("Error", "driver did not start"))
    /\ UNCHANGED <<invoice_data, doc, currency, context, session, held, browser,
                   calls, output_file>>
    /\ RenderFrame

\* A step inside the async with block succeeds.
Step(from, to, b) ==
    /\ pc = from
    /\ pc' = to
    /\ browser' = b
    /\ UNCHANGED <<invoice_data, doc, currency, context, exc, session, held, calls,
                   output_file, response>>
    /\ RenderFrame

\* A step inside the async with block raises: the block is left.
StepFails(from, msg) ==
    /\ pc = from
    /\ exc' = Error("Error", msg)
    /\ pc' = "exit"
    /\ UNCHANGED <<invoice_data, doc, currency, context, session, held, browser,
                   calls, output_file, response>>
    /\ RenderFrame

\* browser = await p.chromium.launch()
Launch == Step("launch", "new_page", "open")
LaunchFails == StepFails("launch", "executable not found")

\* page = await browser.new_page()
NewPage == Step("new_page", "set_content", "open")
NewPageFails == StepFails("new_page", "target closed")

\* await page.set_content(rendered_html, wait_until="networkidle")
SetContent == Step("set_content", "pdf", "open")
SetContentFails == StepFails("set_content", "timeout exceeded")

\* pdf_bytes = await page.pdf(format="A4", ...)
Pdf == Step("pdf", "close", "open")
PdfFails == StepFails("pdf", "printing failed")

\* await browser.close()
Close == Step("close", "exit", "closed")
CloseFails == StepFails("close", "connection closed")

\* The async with block is left: the session is stopped, which ends a browser
\* still open; then the response is built, or the except clause answers.
ExitPlaywright ==
    /\ pc = "exit"
    /\ held' = Released(held, session)
    /\ browser' = IF browser = "open" /\ session \notin Released(held, session)
                  THEN "killed" ELSE browser
    /\ response' = IF exc = NoExc THEN PdfResponse(ServerFilename(doc))
                   ELSE RenderExcept(exc)
    /\ pc' = "responded"
    /\ UNCHANGED <<invoice_data, doc, currency, context, exc, session, calls, output_file>>
    /\ RenderFrame

\* client.py: the PDF of a 200 response is saved under the name the client
\* computes from the analyze response it sent.
ClientSave ==
    /\ pc = "responded"
    /\ IsAnalyzeResponse(invoice_data)
    /\ response.status_code = Num(200)
    /\ output_file' = ClientFilename(invoice_data)
    /\ pc' = "saved"
    /\ UNCHANGED <<invoice_data, doc, currency, context, exc, session, held, browser,
                   calls, response>>
    /\ RenderFrame

NextRender ==
    \/ Request
    \/ Bind \/ BindTemplateFails
    \/ EnterPlaywright \/ EnterPlaywrightFails
    \/ Launch \/ LaunchFails
    \/ NewPage \/ NewPageFails
    \/ SetContent \/ SetContentFails
    \/ Pdf \/ PdfFails
    \/ Close \/ CloseFails
    \/ ExitPlaywright
    \/ ClientSave

SpecRender == InitRender /\ [][NextRender]_vars

----------------------------------------------------------------------------
(* Properties of serialize_field, checked under SpecNormalize *)

Returned == pc = "returned"

\* C1: serialize_field returns a value for every input and never raises.
\* (Violated: a null or non-container value under valueObject or valueArray
\* raises AttributeError or TypeError.)
NormalizeIsTotal == Returned => ~IsRaise(result)

NoPrimitiveKey(v) == \A k \in {"valueString", "valueNumber", "valueDate"} : ~HasKey(v, k)

\* C2: when a dict-like field carries primitive keys, the result is the stored
\* value of the string key if present, else of the number key if present, else
\* of the date key, whatever container keys are present as well.
PrimitivePriority ==
    (Returned /\ IsDictLike(field) /\ ~NoPrimitiveKey(field)) =>
        /\ HasKey(field, "valueString") => result = field.m["valueString"]
        /\ (~HasKey(field, "valueString") /\ HasKey(field, "valueNumber"))
              => result = field.m["valueNumber"]
        /\ (~HasKey(field, "valueString") /\ ~HasKey(field, "valueNumber"))
              => result = field.m["valueDate"]

\* Reached: string, number and date all set, and the string value is returned.
PrimitivePriorityWitness ==
    /\ Returned
    /\ field = Dict(Merge(Map2("valueString", Str("Acme"), "valueNumber", Num(7)),
                          Map1("valueDate", Str("2024-01-31"))))
    /\ result = Str("Acme")

IsObjectField(v) ==
    IsDictLike(v) /\ NoPrimitiveKey(v) /\ HasKey(v, "valueObject")
    /\ v.m["valueObject"].t = "dict"

IsArrayField(v) ==
    IsDictLike(v) /\ NoPrimitiveKey(v) /\ ~HasKey(v, "valueObject")
    /\ HasKey(v, "valueArray") /\ v.m["valueArray"].t = "list"

\* C3: for an object field whose members all normalize, the result is the
\* mapping with the same keys, each member normalized; for an array field whose
\* items all normalize, the result is the sequence of the normalized items in the
\* original order.
StructurePreserving ==
    Returned =>
        /\ IsObjectField(field) =>
              LET m == field.m["valueObject"].m IN
              (\A k \in DOMAIN m : ~IsRaise(serialize_field(m[k]))) =>
                  /\ result.t = "dict"
                  /\ DOMAIN result.m = DOMAIN m
                  /\ \A k \in DOMAIN m : result.m[k] = serialize_field(m[k])
        /\ IsArrayField(field) =>
              LET xs == field.m["valueArray"].xs IN
              (\A i \in 1..Len(xs) : ~IsRaise(serialize_field(xs[i]))) =>
                  /\ result.t = "list"
                  /\ Len(result.xs) = Len(xs)
                  /\ \A i \in 1..Len(xs) : result.xs[i] = serialize_field(xs[i])

\* Reached: an array of two different items, the first itself an object field,
\* normalized in order.
StructurePreservingWitness ==
    /\ Returned
    /\ field = Dict(Map1("valueArray", List(<<
                  Dict(Map1("valueObject",
                            Dict(Map1("CustomerName", Dict(Map1("valueNumber", Num(7))))))),
                  Dict(Map1("valueString", Str("INV-42"))) >>)))
    /\ result = List(<< Dict(Map1("CustomerName", Num(7))), Str("INV-42") >>)

RECURSIVE IsCanonical(_)
\* null, string, number, mapping of canonical values, sequence of canonical values
IsCanonical(v) ==
    CASE v.t \in {"null", "str", "num"} -> TRUE
      [] v.t = "dict" -> \A k \in DOMAIN v.m : IsCanonical(v.m[k])
      [] v.t = "list" -> \A i \in 1..Len(v.xs) : IsCanonical(v.xs[i])
      [] OTHER -> FALSE

RECURSIVE IsJsonShape(_)
\* as IsCanonical, with booleans allowed
IsJsonShape(v) ==
    CASE v.t \in {"null", "str", "num", "bool"} -> TRUE
      [] v.t = "dict" -> \A k \in DOMAIN v.m : IsJsonShape(v.m[k])
      [] v.t = "list" -> \A i \in 1..Len(v.xs) : IsJsonShape(v.xs[i])
      [] OTHER -> FALSE

RECURSIVE StoredPrimitivesAreJson(_)
\* Every value stored under a primitive key, anywhere in the tree, is JSON-shaped.
StoredPrimitivesAreJson(v) ==
    IF v.t # "dict" THEN TRUE
    ELSE /\ \A k \in {"valueString", "valueNumber", "valueDate"} :
                HasKey(v, k) => IsJsonShape(v.m[k])
         /\ (HasKey(v, "valueObject") /\ v.m["valueObject"].t = "dict") =>
                \A k \in DOMAIN v.m["valueObject"].m :
                    StoredPrimitivesAreJson(v.m["valueObject"].m[k])
         /\ (HasKey(v, "valueArray") /\ v.m["valueArray"].t = "list") =>
                \A i \in 1..Len(v.m["valueArray"].xs) :
                    StoredPrimitivesAreJson(v.m["valueArray"].xs[i])

\* C4 as stated: every value serialize_field returns is canonical: null, string,
\* number, mapping or sequence of such, and never a boolean.
\* (Violated: a boolean is returned as a boolean.)
OutputIsCanonical == (Returned /\ ~IsRaise(result)) => IsCanonical(result)

\* C4 amended: every value serialize_field returns for a tree whose stored
\* primitive values are JSON-shaped is null, string, number, boolean, or a
\* mapping or sequence of such.
OutputIsJsonShape ==
    (Returned /\ ~IsRaise(result) /\ StoredPrimitivesAreJson(field)) => IsJsonShape(result)

\* Reached: a typed object whose value attribute is a date object nested in an
\* array comes out as a string, and a boolean attribute comes out as a boolean.
OutputIsJsonShapeWitness ==
    /\ Returned
    /\ \/ field = Obj(Map1("value_date", Date("2024-01-31"))) /\ result = Str("2024-01-31")
       \/ /\ field = Dict(Map1("valueArray", List(<<Obj(Map1("value", Bool(TRUE)))>>)))
          /\ result = List(<<Bool(TRUE)>>)

----------------------------------------------------------------------------
(* Properties of analyze_invoice, checked under SpecAnalyze *)

Max(S) == CHOOSE x \in S : \A y \in S : y <= x

\* The blocks among the first n that define the field name k.
Defining(k, n) ==
    {i \in 1..n : HasFields(contents[i]) /\ k \in DOMAIN contents[i].a["fields"].m}

StringField(x) == Dict(Map1("valueString", Str(x)))
BlockOf(m) == Obj(Map1("fields", Dict(m)))

\* Every field name seen in the first n blocks.
NamesSeen(n) ==
    UNION {DOMAIN contents[i].a["fields"].m : i \in {j \in 1..n : HasFields(contents[j])}}

\* Each name seen mapped to the normalized value of the last block defining it.
LastWriteWins(n) ==
    [k \in NamesSeen(n) |->
        serialize_field(contents[Max(Defining(k, n))].a["fields"].m[k])]

\* C6: after any number of content blocks have been processed, the flat mapping
\* holds exactly the field names seen so far, each with the normalized value of
\* the last block that defines it; the success response carries that mapping for
\* all the blocks.
MergeIsLastWriteWins ==
    /\ pc = "merge" => extracted_data = LastWriteWins(cursor)
    /\ (pc = "responded" /\ response.kind = "json") =>
          /\ cursor = Len(contents)
          /\ response.content.m["data"] = Dict(LastWriteWins(Len(contents)))

\* Reached: two blocks define CustomerName with different values, a block
\* without fields lies between or beside them, and the second value is the result.
MergeIsLastWriteWinsWitness ==
    /\ pc = "responded" /\ response.kind = "json"
    /\ contents = << BlockOf(Map2("CustomerName", StringField("Acme"),
                                  "InvoiceId", StringField("Acme"))),
                     Obj(EmptyMap),
                     BlockOf(Map1("CustomerName", StringField("Bolt"))) >>
    /\ response.content.m["data"] =
          Dict(Map2("CustomerName", Str("Bolt"), "InvoiceId", Str("Acme")))

\* C10: a failure reported by the extraction client reaches the caller as an
\* error with the upstream status code, or 500 when the error has none, and the
\* upstream message; any other failure is a 500 with a different message; no
\* failure gives a success response.
ExtractionFailureSurfaced ==
    (pc = "responded" /\ upstream # NoExc) =>
        /\ response.kind = "error"
        /\ upstream.t = "HttpResponseError" =>
              /\ response.status_code =
                    (IF upstream.status_code = None THEN Num(500) ELSE upstream.status_code)
              /\ response.detail = "Azure Error: " \o upstream.message
        /\ upstream.t # "HttpResponseError" =>
              /\ response.status_code = Num(500)
              /\ response.detail = "Server Error: " \o upstream.message

----------------------------------------------------------------------------
(* Properties of generate_pdf and the client, checked under SpecRender *)

Unwrapped == pc \notin {"idle", "bind"}

\* C5 as stated: the unwrap is idempotent for any input: unwrapping the
\* effective document once more leaves it unchanged.
\* (Violated: a data value that is itself an envelope is unwrapped again, and
\* on a null or a number the test raises.)
UnwrapIsIdempotent == Unwrapped => Unwrap(doc) = doc

HasBothKeys(x) ==
    \/ x.t = "dict" /\ {"status", "data"} \subseteq DOMAIN x.m
    \/ x.t = "list" /\ {Str("status"), Str("data")} \subseteq {x.xs[i] : i \in 1..Len(x.xs)}
    \/ x.t = "str" /\ x.s = "status data"

\* A mapping, list or string that does not contain both status and data.
PlainData(x) == x.t \in {"dict", "list", "str"} /\ ~HasBothKeys(x)

\* C5 amended: unwrap(unwrap(x)) = unwrap(x) for every mapping x that is not an
\* envelope, and for every envelope whose data is a mapping, list or string that
\* does not itself contain both status and data.
UnwrapIsIdempotentOnPlainData ==
    (Unwrapped /\ (~HasBothKeys(invoice_data) \/ PlainData(invoice_data.m["data"])))
        => Unwrap(doc) = doc

\* Reached: a full analyze response was sent, its data became the effective
\* document, and unwrapping that again changes nothing.
UnwrapIsIdempotentWitness ==
    /\ Unwrapped
    /\ invoice_data = AnalyzeResponse(Dict(Map1("InvoiceId", Str("INV-42"))))
    /\ doc = Dict(Map1("InvoiceId", Str("INV-42")))
    /\ Unwrap(doc) = doc

InScope == pc \in {"launch", "new_page", "set_content", "pdf", "close", "exit"}

\* C7: each call acquires its own session and releases it on every path: while
\* a call is inside the browser block it holds exactly the session it started
\* itself, and once it has answered, with a PDF or with an error, no session is
\* held and no browser is open.
SessionReleased ==
    /\ InScope => (session = calls /\ held = {session})
    /\ ~InScope => (held = {} /\ browser # "open")

\* Reached: the second call failed after its browser was launched and has
\* answered with the error; the browser went down with the session.
SessionReleasedWitness ==
    /\ pc = "responded" /\ calls = 2 /\ session = 2
    /\ exc = Error("Error", "timeout exceeded")
    /\ response.status_code = Num(500)
    /\ browser = "killed" /\ held = {}

\* C8: the currency bound into the template is TotalAmount.CurrencyCode when
\* TotalAmount is a mapping with that key and the empty string otherwise, and
\* binding it next to the document's fields raises no error whatever the
\* document's top-level keys are.
\* (Violated: a document with a top-level key named currency makes the render
\* call raise TypeError.)
CurrencyBound ==
    (Unwrapped /\ doc.t = "dict") =>
        /\ currency =
              (IF /\ "TotalAmount" \in DOMAIN doc.m
                  /\ doc.m["TotalAmount"].t = "dict"
                  /\ "CurrencyCode" \in DOMAIN doc.m["TotalAmount"].m
               THEN doc.m["TotalAmount"].m["CurrencyCode"]
               ELSE Str(""))
        /\ exc.t # "TypeError"
        /\ exc = NoExc => context = Merge(doc.m, Map1("currency", currency))

\* C9: a successful render answers with the header
\* Content-Disposition: attachment; filename="invoice_<id>.pdf", <id> being the
\* InvoiceId of the effective document or "invoice" when it has none, and the
\* client saves the PDF under the same name.
FilenameDerived ==
    /\ (pc \in {"responded", "saved"} /\ response.kind = "pdf") =>
          response.headers["Content-Disposition"] =
              "attachment; filename=\"invoice_"
              \o (IF "InvoiceId" \in DOMAIN doc.m THEN PyStr(doc.m["InvoiceId"])
                  ELSE "invoice")
              \o ".pdf\""
    /\ pc = "saved" =>
          response.headers["Content-Disposition"] =
              "attachment; filename=\"" \o output_file \o "\""

\* Reached: the client sent an analyze response whose data has no InvoiceId and
\* saved invoice_invoice.pdf, the name in the response header.
FilenameDerivedWitness ==
    /\ pc = "saved"
    /\ "InvoiceId" \notin DOMAIN doc.m
    /\ output_file = "invoice_invoice.pdf"
    /\ response.headers["Content-Disposition"] = "attachment; filename=\"invoice_invoice.pdf\""

====
